---- MODULE Spec2Model ----
(***************************************************************************)
(* Scheduling primitives of rbxts-prim: Interval and Timeout               *)
(* (src/src/scheduler/interval.ts), Throttle and Debounce                  *)
(* (src/src/scheduler/rate-limit.ts), over the time helpers of             *)
(* src/src/time/unit.ts.                                                   *)
(*                                                                         *)
(* Numbers.  The source computes on Lua numbers, and the unit conversions  *)
(* leave the integers (5 ms is 0.005 s).  A number is modelled as an exact *)
(* fraction [n |-> numerator, d |-> denominator] in lowest terms, d > 0.   *)
(*                                                                         *)
(* Time.  clock is the real time, in whole milliseconds, since the program *)
(* started.  os.time() reads it in whole seconds.  task.wait(t) suspends   *)
(* the calling task; the engine resumes it at some step at which at least  *)
(* t seconds have passed.  task.spawn(f) runs f at once, up to its first   *)
(* suspension, before the spawning code continues.                         *)
(***************************************************************************)
EXTENDS Integers, Sequences, FiniteSets

VARIABLES
    clock,      \* real time in ms since the program started
    ticks,      \* number of clock advances taken (bounds the run)
    iv,         \* the Interval of setInterval: closure variables and task position
    ivObs,      \* observations of the Interval's run (not program state)
    tmo,        \* the Timeout of setTimeout: closure variables and task position
    tmoObs,     \* observations of the Timeout's run
    th,         \* the Throttle: its fields
    thObs,      \* observations of the Throttle's run
    db,         \* the Debounce: its fields, the Timeouts it made, the calls it made
    dbObs,      \* observations of the Debounce's run
    wr,         \* the function made by Throttle.wrap: its throttle, fn's invocations
    wrObs,      \* observations of the wrapped function's run
    bm,         \* runningBenchmarks: the map from a running id to its start
    bmObs,      \* observations of the benchmark registry's run
    ds,         \* a disect call: its arguments and, once made, its result
    sl,         \* the task of a sleep call: its position and its promise
    slObs       \* observations of the sleep's run

vars == <<clock, ticks, iv, ivObs, tmo, tmoObs, th, thObs, db, dbObs, wr, wrObs,
          bm, bmObs, ds, sl, slObs>>

----------------------------------------------------------------------------
(* Bounds *)

\* clock advances taken in one run
MaxTicks == 6
\* largest period, in ms, handed to setInterval / Interval.setTimeout
MaxPeriodMs == 3
\* calls of the function made by Throttle.wrap in one run
MaxWrapCalls == 3
\* callback invocations recorded in one run
MaxCalls == 3
\* largest delay, in ms, handed to setTimeout / new Debounce / Debounce.setTimeout
MaxDelayMs == 2
\* schedule() calls made on the Debounce in one run
MaxSchedules == 2
\* units handed to one disect call
MaxUnits == 3
\* clock advances taken in one run of the Debounce
MaxDbTicks == 3
\* reading of os.time() when the program starts, in seconds
Epoch == 1000

----------------------------------------------------------------------------
(* Numbers as exact fractions *)

RECURSIVE GCD(_, _)
GCD(a, b) == IF b = 0 THEN a ELSE GCD(b, a % b)

Abs(x) == IF x < 0 THEN -x ELSE x

\* the fraction n/d in lowest terms, d # 0
Frac(n, d) ==
    LET g == GCD(Abs(n), Abs(d))
        s == IF d < 0 THEN -1 ELSE 1
    IN  [n |-> (s * n) \div g, d |-> (s * d) \div g]

Num(i) == [n |-> i, d |-> 1]

Mul(x, y) == Frac(x.n * y.n, x.d * y.d)
Div(x, y) == Frac(x.n * y.d, x.d * y.n)
Sub(x, y) == Frac(x.n * y.d - y.n * x.d, x.d * y.d)
Leq(x, y) == x.n * y.d <= y.n * x.d
Less(x, y) == x.n * y.d < y.n * x.d

\* math.max
max(x, y) == IF Less(x, y) THEN y ELSE x

\* the absent value of an optional variable
undefined == [tag |-> "undefined"]

\* JavaScript truthiness of an optional number, as `!x` tests it: undefined and 0
\* are falsy
Falsy(x) == x = undefined \/ x = Num(0)

----------------------------------------------------------------------------
(* src/src/time/unit.ts *)

\* Unit: the seconds each unit is equal to
Unit ==
    [MILLI  |-> [seconds |-> Frac(1, 1000), name |-> "millisecond"],
     SECOND |-> [seconds |-> Num(1), name |-> "second"],
     MINUTE |-> [seconds |-> Num(60), name |-> "minute"],
     HOUR   |-> [seconds |-> Num(3600), name |-> "hour"]]

convert(value, from, to) == Div(Mul(value, from.seconds), to.seconds)

\* os.time(): the clock in whole seconds
now(clk) == Num(Epoch + clk \div 1000)

diff(start, fin) == Sub(fin, start)

----------------------------------------------------------------------------
(* The engine's task.wait *)

\* whole milliseconds needed for t seconds to have passed
CeilMs(t) == -((-(t.n * 1000)) \div t.d)

\* the earliest clock reading at which a task.wait(t) begun at clk may resume
WaitDeadline(t, clk) == clk + (IF CeilMs(t) < 0 THEN 0 ELSE CeilMs(t))

----------------------------------------------------------------------------
(* src/src/scheduler/interval.ts: conversions *)

\* sToMs with the two units exchanged
sToMs_UnitsExchanged(ms) == convert(ms, Unit.SECOND, Unit.MILLI)

\* named sToMs in the source; its parameter is in milliseconds and its result in seconds
sToMs(ms) == convert(ms, Unit.MILLI, Unit.SECOND)

\* named msToS in the source; its parameter is in seconds and its result in milliseconds
msToS(s) == convert(s, Unit.SECOND, Unit.MILLI)

----------------------------------------------------------------------------
(* src/src/scheduler/interval.ts: setInterval *)

\* The head of the loop and its first two statements: test the flag, record
\* `latest`, enter task.wait(timeout).  pc is the task's position; waitArg
\* and wakeAt are the argument and the deadline of the task.wait in flight
\* (undefined and 0 when none is).
Interval_startCycle(s, clk) ==
    IF s.destroyed
    THEN [s EXCEPT !.pc = "done"]
    ELSE [s EXCEPT !.latest = [timeout |-> s.timeout, start |-> now(clk)],
                   !.pc = "wait",
                   !.waitArg = s.timeout,
                   !.wakeAt = WaitDeadline(s.timeout, clk)]

\* Interval_afterWait without the test of the flag after the wait
Interval_afterWait_NoCheck(s) ==
    [s EXCEPT !.latest = undefined, !.pc = "cb", !.waitArg = undefined, !.wakeAt = 0]

\* The statements after task.wait returns: clear `latest`, break if destroyed,
\* otherwise begin the callback.
Interval_afterWait(s) ==
    LET woke == [s EXCEPT !.latest = undefined, !.waitArg = undefined, !.wakeAt = 0]
    IN  IF s.destroyed
        THEN [woke EXCEPT !.pc = "done"]
        ELSE [woke EXCEPT !.pc = "cb"]

\* Interval_cbRaised that catches the error and goes round the loop
Interval_cbRaised_Caught(s, clk) == Interval_startCycle(s, clk)

\* cb raises: nothing in the loop catches the error, it leaves the spawned
\* function and the task is dead
Interval_cbRaised(s, clk) == [s EXCEPT !.pc = "dead"]

\* setInterval(cb, timeoutMs): the closure variables, and the spawned task run
\* up to its first task.wait
setInterval(timeoutMs, clk) ==
    Interval_startCycle(
        [timeout |-> sToMs(timeoutMs), destroyed |-> FALSE, latest |-> undefined,
         pc |-> "spawn", waitArg |-> undefined, wakeAt |-> 0], clk)

\* Interval_setTimeout that also restarts the wait in flight with the new period
Interval_setTimeout_Reissue(s, ms) ==
    [s EXCEPT !.timeout = sToMs(ms),
              !.wakeAt = IF s.pc = "wait"
                         THEN (s.wakeAt - CeilMs(s.timeout)) + CeilMs(sToMs(ms))
                         ELSE @]

Interval_setTimeout(s, ms) == [s EXCEPT !.timeout = sToMs(ms)]

\* setIntervalNow without the task.spawn of the callback
setIntervalNow_NoSpawn(timeoutMs, clk) ==
    [spawned |-> 0, handle |-> setInterval(timeoutMs, clk)]

\* setIntervalNow(cb, timeoutMs): task.spawn(() => void cb(...args)) begins
\* one invocation of cb at once, in a task of its own, and then setInterval
\* makes the handle returned.  spawned: the invocations begun by that spawn.
setIntervalNow(timeoutMs, clk) ==
    [spawned |-> 1, handle |-> setInterval(timeoutMs, clk)]

\* Interval_destroy that also ends the wait in flight
Interval_destroy_EndsWait(s) ==
    [s EXCEPT !.destroyed = TRUE, !.pc = IF @ = "wait" THEN "done" ELSE @]

Interval_destroy(s) == [s EXCEPT !.destroyed = TRUE]

Interval_isDestroyed(s) == s.destroyed

Interval_getTimeout(s) == msToS(s.timeout)

Interval_getRemaining(s, clk) ==
    IF s.latest = undefined THEN Num(0)
    ELSE LET elapsed == diff(s.latest.start, now(clk))
             remaining == max(Num(0), Sub(s.latest.timeout, elapsed))
         IN  msToS(remaining)

----------------------------------------------------------------------------
(* The Interval's run *)

PeriodsMs == 0 .. MaxPeriodMs

\* Observations.  periodMs: the milliseconds last handed in by the caller;
\* p0: those handed to setInterval; cycleStart, cyclePeriodMs: the clock and
\* periodMs when the latest wait began; calls: callback invocations begun;
\* firstAt, lastAt: the clock at the first and the latest of them (-1: none);
\* lastDue: the deadline of the wait that ended in the latest of them;
\* late: some wait was resumed later than its deadline; retimed: setTimeout
\* was called; midWait: it was called while a wait was in flight that had
\* begun earlier and had not elapsed; yields: the callback suspends before it
\* returns; callsAtDestroy: calls when destroy() was first called (-1: never);
\* immediate: the invocations begun outside the loop, by setIntervalNow.
\* calls counts the invocations begun by the loop.
IvObsInit(p, yields) ==
    [periodMs |-> p, p0 |-> p, cycleStart |-> 0, cyclePeriodMs |-> p,
     calls |-> 0, firstAt |-> -1, lastAt |-> -1, lastDue |-> -1,
     late |-> FALSE, retimed |-> FALSE, midWait |-> FALSE, yields |-> yields,
     callsAtDestroy |-> -1, immediate |-> 0, raised |-> FALSE]

IvObsCycle(o, s, clk) ==
    IF s.pc = "wait"
    THEN [o EXCEPT !.cycleStart = clk, !.cyclePeriodMs = o.periodMs]
    ELSE o

IvObsCall(o, s, clk) ==
    IF s.pc = "cb"
    THEN [o EXCEPT !.calls = @ + 1,
                   !.firstAt = IF o.calls = 0 THEN clk ELSE @,
                   !.lastAt = clk,
                   !.lastDue = o.cycleStart + o.cyclePeriodMs]
    ELSE o

\* the objects a specification does not run stay absent
NoTimeout == tmo = undefined /\ tmoObs = undefined
NoInterval == iv = undefined /\ ivObs = undefined
NoThrottle == th = undefined /\ thObs = undefined
NoDebounce == db = undefined /\ dbObs = undefined
NoWrap == wr = undefined /\ wrObs = undefined
NoBenchmark == bm = undefined /\ bmObs = undefined
NoDisect == ds = undefined
NoSleep == sl = undefined /\ slObs = undefined
\* none of the objects outside the scheduler module is in use
NoOthers == NoBenchmark /\ NoDisect /\ NoSleep

IvInit ==
    /\ clock = 0
    /\ ticks = 0
    /\ NoTimeout /\ NoThrottle /\ NoDebounce /\ NoWrap /\ NoOthers
    /\ \E p \in PeriodsMs, y \in BOOLEAN :
          /\ iv = setInterval(Num(p), 0)
          /\ ivObs = IvObsInit(p, y)

\* The engine resumes the task waiting in task.wait.  A callback that does not
\* suspend returns within the same step and the loop goes round.
IvResume ==
    /\ iv.pc = "wait"
    /\ clock >= iv.wakeAt
    /\ ivObs.calls < MaxCalls \/ iv.destroyed
    /\ LET woke == Interval_afterWait(iv)
           o1 == IvObsCall(ivObs, woke, clock)
       IN  IF woke.pc = "cb" /\ ~ivObs.yields
           THEN /\ iv' = Interval_startCycle(woke, clock)
                /\ ivObs' = IvObsCycle(o1, iv', clock)
           ELSE /\ iv' = woke
                /\ ivObs' = o1
    /\ UNCHANGED <<clock, ticks, tmo, tmoObs, th, thObs, db, dbObs, wr, wrObs,
                 bm, bmObs, ds, sl, slObs>>

\* A callback that suspended returns; the loop goes round.
IvCallbackReturns ==
    /\ iv.pc = "cb"
    /\ iv' = Interval_startCycle(iv, clock)
    /\ ivObs' = IvObsCycle(ivObs, iv', clock)
    /\ UNCHANGED <<clock, ticks, tmo, tmoObs, th, thObs, db, dbObs, wr, wrObs,
                 bm, bmObs, ds, sl, slObs>>

IvDestroy ==
    /\ iv' = Interval_destroy(iv)
    /\ ivObs' = IF ivObs.callsAtDestroy = -1
                THEN [ivObs EXCEPT !.callsAtDestroy = ivObs.calls]
                ELSE ivObs
    /\ UNCHANGED <<clock, ticks, tmo, tmoObs, th, thObs, db, dbObs, wr, wrObs,
                 bm, bmObs, ds, sl, slObs>>

IvSetTimeout ==
    /\ \E ms \in PeriodsMs :
          /\ iv' = Interval_setTimeout(iv, Num(ms))
          /\ ivObs' = [ivObs EXCEPT
                !.periodMs = ms,
                !.retimed = TRUE,
                !.midWait = @ \/ (iv.pc = "wait" /\ ivObs.cycleStart < clock
                                   /\ clock < iv.wakeAt)]
    /\ UNCHANGED <<clock, ticks, tmo, tmoObs, th, thObs, db, dbObs, wr, wrObs,
                 bm, bmObs, ds, sl, slObs>>

\* One millisecond passes.
IvTick ==
    /\ ticks < MaxTicks
    /\ clock' = clock + 1
    /\ ticks' = ticks + 1
    /\ ivObs' = [ivObs EXCEPT !.late = @ \/ (iv.pc = "wait" /\ clock >= iv.wakeAt)]
    /\ UNCHANGED <<iv, tmo, tmoObs, th, thObs, db, dbObs, wr, wrObs,
                 bm, bmObs, ds, sl, slObs>>

IvNext ==
    \/ IvResume
    \/ IvCallbackReturns
    \/ IvDestroy
    \/ IvSetTimeout
    \/ IvTick

SpecInterval == IvInit /\ [][IvNext]_vars

\* the run of an Interval whose period is left as setInterval took it
IvFairNext ==
    \/ IvResume
    \/ IvCallbackReturns
    \/ IvDestroy
    \/ IvTick

\* An Interval whose waits the engine resumes once they have elapsed, whose
\* callback returns once it has begun, and whose time passes.
SpecIntervalFair ==
    /\ IvInit /\ [][IvFairNext]_vars
    /\ WF_vars(IvResume) /\ WF_vars(IvCallbackReturns) /\ WF_vars(IvTick)

\* the state after setIntervalNow(cb, p) has returned
IvNowInit ==
    /\ clock = 0
    /\ ticks = 0
    /\ NoTimeout /\ NoThrottle /\ NoDebounce /\ NoWrap /\ NoOthers
    /\ \E p \in PeriodsMs, y \in BOOLEAN :
          LET made == setIntervalNow(Num(p), 0)
          IN  /\ iv = made.handle
              /\ ivObs = [IvObsInit(p, y) EXCEPT !.immediate = made.spawned]

SpecIntervalNow == IvNowInit /\ [][IvNext]_vars

\* a wait is in flight whose deadline has passed and which the engine has not resumed
IvDue == iv.pc = "wait" /\ clock >= iv.wakeAt

----------------------------------------------------------------------------
(* Claims about Interval *)

\* C1: once destroy() has been called on an Interval no callback invocation
\* begins: the number of invocations begun stays what it was when destroy()
\* was first called (zero when that was before the first period elapsed),
\* whatever the period and however long the run goes on.
C1_NoCallAfterDestroy ==
    ivObs.callsAtDestroy # -1 => ivObs.calls = ivObs.callsAtDestroy

\* C1 witness: destroy() was called before the first call, the wait that was
\* in flight (of a period above zero) has completed since, and the task has
\* ended without a call.
C1_Witness ==
    /\ iv.destroyed /\ ivObs.callsAtDestroy = 0 /\ ivObs.calls = 0
    /\ iv.pc = "done" /\ ivObs.p0 > 0 /\ clock >= ivObs.p0

\* C4: Interval.setTimeout(ms) leaves the wait in flight alone.  The deadline
\* of the wait in flight is the clock at which the wait began plus the period
\* the caller had set last at that moment, also after later setTimeout calls,
\* and every wait that begins takes the period set last before it.  So each
\* invocation begins no earlier than its cycle's start plus that period, and
\* exactly then when every wait is resumed at its deadline.
C4_SetTimeoutAffectsNextCycleOnly ==
    /\ iv.pc = "wait" =>
          /\ iv.wakeAt = ivObs.cycleStart + ivObs.cyclePeriodMs
          /\ Interval_getRemaining(iv, ivObs.cycleStart) = Num(ivObs.cyclePeriodMs)
    /\ ivObs.calls > 0 =>
          /\ ivObs.lastAt >= ivObs.lastDue
          /\ (~ivObs.late => ivObs.lastAt = ivObs.lastDue)

\* C4 witness: period 3 ms, changed to 1 ms in the middle of the first wait;
\* the first invocation was at 3 ms and the second at 4 ms.
C4_Witness ==
    /\ ivObs.p0 = 3 /\ ivObs.periodMs = 1 /\ ivObs.midWait /\ ~ivObs.late
    /\ ivObs.calls = 2 /\ ivObs.firstAt = 3 /\ ivObs.lastAt = 4

\* C5: with a constant period p > 0, no destroy() and a callback that does not
\* suspend, the invocations begun number at most floor(T / p), T the time since
\* setInterval, and exactly floor(T / p) when every wait so far was resumed at
\* its deadline and none is overdue.
C5_CallsAreFullPeriods ==
    (~ivObs.retimed /\ ~ivObs.yields /\ ivObs.p0 > 0 /\ ~iv.destroyed) =>
        /\ ivObs.calls <= clock \div ivObs.p0
        /\ (~ivObs.late /\ ~IvDue => ivObs.calls = clock \div ivObs.p0)

\* C5 witness: period 2 ms, left running for two full periods: two invocations.
C5_Witness ==
    /\ ~ivObs.retimed /\ ~ivObs.yields /\ ~iv.destroyed /\ ~ivObs.late /\ ~IvDue
    /\ ivObs.p0 = 2 /\ clock = 4 /\ ivObs.calls = 2

\* C16: while a wait is in flight Interval.getRemaining() is max(0, P -
\* elapsed) ms, P the period when that wait began and elapsed the ms since it
\* began; it is 0 when no wait is in flight (the callback runs, or the loop
\* has ended).
C16_RemainingIsPeriodLessElapsed ==
    LET elapsed == clock - ivObs.cycleStart
        left == IF ivObs.cyclePeriodMs > elapsed
                THEN ivObs.cyclePeriodMs - elapsed ELSE 0
    IN  /\ iv.pc = "wait" => Interval_getRemaining(iv, clock) = Num(left)
        /\ iv.pc # "wait" => Interval_getRemaining(iv, clock) = Num(0)

\* C19: setIntervalNow has begun one invocation of the callback when it
\* returns, whatever is done with the handle afterwards (destroy() right
\* after creation included), and from there on the handle is setInterval's:
\* unless destroyed, the loop's first invocation comes one period later, at
\* the period exactly when the wait is resumed at its deadline; with a
\* constant period p > 0, no destroy() and a callback that does not suspend,
\* floor(T / p) + 1 invocations have begun T ms after the call when every
\* wait was resumed at its deadline: k + 1 after k full periods.
C19_ImmediateThenEveryPeriod ==
    /\ ivObs.immediate = 1
    /\ ivObs.calls > 0 => ivObs.firstAt >= ivObs.p0
    /\ (~iv.destroyed /\ ~ivObs.late /\ ~IvDue /\ clock >= ivObs.p0) =>
          ivObs.calls >= 1 /\ ivObs.firstAt = ivObs.p0
    /\ (~ivObs.retimed /\ ~ivObs.yields /\ ivObs.p0 > 0 /\ ~iv.destroyed
          /\ ~ivObs.late /\ ~IvDue) =>
          ivObs.immediate + ivObs.calls = clock \div ivObs.p0 + 1

\* C19 witness: setIntervalNow with a period of 3 ms, left running for two
\* full periods: three invocations, one at once and two by the loop, the
\* first of these at 3 ms.
C19_Witness ==
    /\ ~ivObs.retimed /\ ~ivObs.yields /\ ~iv.destroyed /\ ~ivObs.late /\ ~IvDue
    /\ ivObs.p0 = 3 /\ clock = 6 /\ ivObs.immediate = 1 /\ ivObs.calls = 2
    /\ ivObs.firstAt = 3

----------------------------------------------------------------------------
(* src/src/scheduler/interval.ts: setTimeout *)

\* Timeout_afterWait without the test of the flag after the wait
Timeout_afterWait_NoCheck(s) ==
    [s EXCEPT !.start = undefined, !.executed = TRUE, !.pc = "cb",
              !.waitArg = undefined, !.wakeAt = 0]

\* The statements after task.wait returns: clear `start`, return if destroyed,
\* otherwise set `executed` and begin the callback.
Timeout_afterWait(s) ==
    LET woke == [s EXCEPT !.start = undefined, !.waitArg = undefined, !.wakeAt = 0]
    IN  IF s.destroyed
        THEN [woke EXCEPT !.pc = "done"]
        ELSE [woke EXCEPT !.executed = TRUE, !.pc = "cb"]

\* cb raises: the error leaves the spawned function and the task is dead
Timeout_cbRaised(s) == [s EXCEPT !.pc = "dead"]

\* setTimeout(cb, timeoutMs): the closure variables, and the spawned task run
\* up to its task.wait
setTimeout(timeoutMs, clk) ==
    LET timeout == msToS(timeoutMs)
    IN  [timeout |-> timeout, start |-> now(clk), destroyed |-> FALSE,
         executed |-> FALSE, pc |-> "wait", waitArg |-> timeout,
         wakeAt |-> WaitDeadline(timeout, clk)]

Timeout_destroy(s) == [s EXCEPT !.destroyed = TRUE]

Timeout_isDestroyed(s) == s.destroyed

Timeout_hasExecuted(s) == s.executed

Timeout_getTimeout(s) == sToMs(s.timeout)

Timeout_getRemaining(s, clk) ==
    IF Falsy(s.start) THEN Num(0)
    ELSE LET elapsed == diff(s.start, now(clk))
             remaining == max(Num(0), Sub(s.timeout, elapsed))
         IN  msToS(remaining)

----------------------------------------------------------------------------
(* The Timeout's run *)

DelaysMs == 0 .. MaxDelayMs

\* the amounts of time, in ms, that pass in one step of a Timeout's run
ToStepsMs == {1, 1000, 1000000}

\* Observations.  delayMs: the milliseconds handed to setTimeout; calls:
\* callback invocations begun; callAt: the clock at the first (-1: none);
\* destroyedInWait: destroy() was called while the wait was in flight;
\* late: the wait was resumed later than its deadline.
ToObsInit(d) ==
    [delayMs |-> d, calls |-> 0, callAt |-> -1, destroyedInWait |-> FALSE,
     late |-> FALSE, raised |-> FALSE]

ToObsCall(o, s, clk) ==
    IF s.pc = "cb"
    THEN [o EXCEPT !.calls = @ + 1, !.callAt = IF o.calls = 0 THEN clk ELSE @]
    ELSE o

ToInit ==
    /\ clock = 0
    /\ ticks = 0
    /\ NoInterval /\ NoThrottle /\ NoDebounce /\ NoWrap /\ NoOthers
    /\ \E d \in DelaysMs :
          /\ tmo = setTimeout(Num(d), 0)
          /\ tmoObs = ToObsInit(d)

\* The engine resumes the task waiting in task.wait.
ToResume ==
    /\ tmo.pc = "wait"
    /\ clock >= tmo.wakeAt
    /\ tmo' = Timeout_afterWait(tmo)
    /\ tmoObs' = ToObsCall(tmoObs, tmo', clock)
    /\ UNCHANGED <<clock, ticks, iv, ivObs, th, thObs, db, dbObs, wr, wrObs,
                 bm, bmObs, ds, sl, slObs>>

\* The callback returns and the task ends.
ToCallbackReturns ==
    /\ tmo.pc = "cb"
    /\ tmo' = [tmo EXCEPT !.pc = "done"]
    /\ UNCHANGED <<clock, ticks, tmoObs, iv, ivObs, th, thObs, db, dbObs, wr, wrObs,
                 bm, bmObs, ds, sl, slObs>>

ToDestroy ==
    /\ tmo' = Timeout_destroy(tmo)
    /\ tmoObs' = [tmoObs EXCEPT !.destroyedInWait = @ \/ tmo.pc = "wait"]
    /\ UNCHANGED <<clock, ticks, iv, ivObs, th, thObs, db, dbObs, wr, wrObs,
                 bm, bmObs, ds, sl, slObs>>

ToTick ==
    /\ ticks < MaxTicks
    /\ \E step \in ToStepsMs :
          /\ clock' = clock + step
          /\ tmoObs' = [tmoObs EXCEPT
                !.late = @ \/ (tmo.pc = "wait" /\ clock + step > tmo.wakeAt)]
    /\ ticks' = ticks + 1
    /\ UNCHANGED <<tmo, iv, ivObs, th, thObs, db, dbObs, wr, wrObs,
                 bm, bmObs, ds, sl, slObs>>

ToNext ==
    \/ ToResume
    \/ ToCallbackReturns
    \/ ToDestroy
    \/ ToTick

SpecTimeout == ToInit /\ [][ToNext]_vars

\* the wait is in flight, its deadline has passed and the engine has not resumed it
ToDue == tmo.pc = "wait" /\ clock >= tmo.wakeAt

----------------------------------------------------------------------------
(* Claims about Timeout *)

\* C2: when destroy() is called on a Timeout while its wait is in flight, the
\* callback is never invoked and hasExecuted() stays false, however long the
\* run goes on.
C2_DestroyedInWaitNeverRuns ==
    tmoObs.destroyedInWait => tmoObs.calls = 0 /\ ~Timeout_hasExecuted(tmo)

\* C2 witness: destroy() was called during the wait, the wait has completed
\* since and the task has ended without a call.
C2_Witness ==
    /\ tmoObs.destroyedInWait /\ tmo.pc = "done"
    /\ tmoObs.delayMs > 0 /\ tmoObs.calls = 0 /\ ~Timeout_hasExecuted(tmo)

\* C3: setTimeout(cb, delayMs) hands delayMs / 1000 seconds to task.wait; the
\* callback of a Timeout that is not destroyed is never invoked before delayMs
\* milliseconds have passed, and it has been invoked once they have passed
\* when the engine resumes the wait at its deadline.
C3_WaitsDelayMs ==
    /\ tmo.pc = "wait" => tmo.waitArg = Frac(tmoObs.delayMs, 1000)
    /\ tmoObs.calls > 0 => tmoObs.callAt >= tmoObs.delayMs
    /\ (~tmo.destroyed /\ ~tmoObs.late /\ ~ToDue /\ clock >= tmoObs.delayMs)
          => tmoObs.calls = 1

\* C13: no state of a Timeout's run has hasExecuted() and isDestroyed() both
\* true, whatever the destroy() calls and the advances of the clock.
C13_NeverExecutedAndDestroyed ==
    ~(Timeout_hasExecuted(tmo) /\ Timeout_isDestroyed(tmo))

\* C14: destroy() called after the callback has run changes nothing:
\* hasExecuted(), isDestroyed(), getRemaining() and getTimeout() return after
\* the call what they returned before it, and no invocation is added.
C14_DestroyAfterRunIsInert ==
    [][(ToDestroy /\ Timeout_hasExecuted(tmo) /\ tmo.pc = "done") =>
          /\ Timeout_hasExecuted(tmo') = Timeout_hasExecuted(tmo)
          /\ Timeout_isDestroyed(tmo') = Timeout_isDestroyed(tmo)
          /\ Timeout_getRemaining(tmo', clock') = Timeout_getRemaining(tmo, clock)
          /\ Timeout_getTimeout(tmo') = Timeout_getTimeout(tmo)
          /\ tmoObs'.calls = tmoObs.calls]_vars

\* C15: getTimeout() is the delay, in ms, handed to setTimeout; while the wait
\* is in flight getRemaining() is max(0, delay - elapsed) ms, elapsed the ms
\* since setTimeout was called, and so never above getTimeout(); once the
\* wait has ended getRemaining() is 0.
C15_RemainingIsDelayLessElapsed ==
    /\ Timeout_getTimeout(tmo) = Num(tmoObs.delayMs)
    /\ tmo.pc = "wait" =>
          Timeout_getRemaining(tmo, clock) =
             Num(IF tmoObs.delayMs > clock THEN tmoObs.delayMs - clock ELSE 0)
    /\ Leq(Timeout_getRemaining(tmo, clock), Timeout_getTimeout(tmo))
    /\ tmo.pc # "wait" => Timeout_getRemaining(tmo, clock) = Num(0)

----------------------------------------------------------------------------
(* src/src/scheduler/rate-limit.ts: Throttle *)

Throttle_setTimeout(s, timeoutMs) ==
    [s EXCEPT !.timeoutSeconds = convert(timeoutMs, Unit.MILLI, Unit.SECOND)]

\* new Throttle(timeoutMs)
Throttle_new(timeoutMs) ==
    Throttle_setTimeout(
        [timeoutSeconds |-> undefined, lastPass |-> undefined, locked |-> FALSE],
        timeoutMs)

Throttle_getRemainingTimeout(s, clk) ==
    IF Falsy(s.lastPass) THEN Num(0)
    ELSE LET diffSeconds == diff(s.lastPass, now(clk))
         IN  max(Num(0), Sub(s.timeoutSeconds, diffSeconds))

\* Throttle_canPass without the test of the lock
Throttle_canPass_NoLock(s, clk) == Throttle_getRemainingTimeout(s, clk) = Num(0)

Throttle_canPass(s, clk) ==
    IF s.locked THEN FALSE
    ELSE Throttle_getRemainingTimeout(s, clk) = Num(0)

\* Throttle_canPassCall that records the moment of the call as a pass
Throttle_canPassCall_Records(s, clk) ==
    [state |-> [s EXCEPT !.lastPass = now(clk)], ret |-> Throttle_canPass(s, clk)]

\* canPass(): the throttle after the call and the value returned
Throttle_canPassCall(s, clk) ==
    [state |-> s, ret |-> Throttle_canPass(s, clk)]

\* Throttle_tryPass that records the attempt also when it does not pass
Throttle_tryPass_AlwaysRecords(s, clk) ==
    [state |-> [s EXCEPT !.lastPass = now(clk)], ret |-> Throttle_canPass(s, clk)]

\* tryPass(): the throttle after the call and the value returned
Throttle_tryPass(s, clk) ==
    IF ~Throttle_canPass(s, clk)
    THEN [state |-> s, ret |-> FALSE]
    ELSE [state |-> [s EXCEPT !.lastPass = now(clk)], ret |-> TRUE]

Throttle_getLastPass(s) == s.lastPass

Throttle_resetLastPass(s) == [s EXCEPT !.lastPass = undefined]

Throttle_lock(s) == [s EXCEPT !.locked = TRUE]

Throttle_unlock(s) == [s EXCEPT !.locked = FALSE]

Throttle_setLocked(s, locked) == [s EXCEPT !.locked = locked]

Throttle_isLocked(s) == s.locked

Throttle_getTimeout(s) == convert(s.timeoutSeconds, Unit.SECOND, Unit.MINUTE)

----------------------------------------------------------------------------
(* The Throttle's run *)

\* the windows, in ms, handed to new Throttle / Throttle.setTimeout
ThWindowsMs == {0, 500, 1000, 1500}

\* the amounts of time, in ms, that pass in one step of a Throttle's run
ThStepsMs == {250, 500}

\* Observations.  windowMs: the milliseconds last handed in by the caller; op,
\* ret, at: the latest operation, what it returned and the clock at it;
\* before: the throttle before it; passAt: the clock at the latest successful
\* tryPass() (-1: none); passAtBefore: passAt before the latest operation;
\* touched: resetLastPass() or setTimeout() was called; checked: the latest
\* operation is a tryPass() and the one before it was a canPass() that
\* returned true, with no time between the two.
ThObsInit(w) ==
    [windowMs |-> w, op |-> "new", ret |-> undefined, at |-> 0,
     before |-> undefined, passAt |-> -1, passAtBefore |-> -1, touched |-> FALSE,
     checked |-> FALSE]

ThObsOp(o, op, ret, s, clk) ==
    [o EXCEPT !.op = op, !.ret = ret, !.at = clk, !.before = s,
              !.passAtBefore = o.passAt,
              !.checked = op = "tryPass" /\ o.op = "canPass" /\ o.ret = TRUE
                            /\ o.at = clk]

ThInit ==
    /\ clock = 0
    /\ ticks = 0
    /\ NoInterval /\ NoTimeout /\ NoDebounce /\ NoWrap /\ NoOthers
    /\ \E w \in ThWindowsMs :
          /\ th = Throttle_new(Num(w))
          /\ thObs = ThObsInit(w)

ThCanPass ==
    /\ LET r == Throttle_canPassCall(th, clock)
       IN  /\ th' = r.state
           /\ thObs' = ThObsOp(thObs, "canPass", r.ret, th, clock)
    /\ UNCHANGED <<clock, ticks, iv, ivObs, tmo, tmoObs, db, dbObs, wr, wrObs,
                 bm, bmObs, ds, sl, slObs>>

ThTryPass ==
    /\ LET r == Throttle_tryPass(th, clock)
       IN  /\ th' = r.state
           /\ thObs' = [ThObsOp(thObs, "tryPass", r.ret, th, clock) EXCEPT
                 !.passAt = IF r.ret THEN clock ELSE @]
    /\ UNCHANGED <<clock, ticks, iv, ivObs, tmo, tmoObs, db, dbObs, wr, wrObs,
                 bm, bmObs, ds, sl, slObs>>

ThLock ==
    /\ th' = Throttle_lock(th)
    /\ thObs' = ThObsOp(thObs, "lock", undefined, th, clock)
    /\ UNCHANGED <<clock, ticks, iv, ivObs, tmo, tmoObs, db, dbObs, wr, wrObs,
                 bm, bmObs, ds, sl, slObs>>

ThUnlock ==
    /\ th' = Throttle_unlock(th)
    /\ thObs' = ThObsOp(thObs, "unlock", undefined, th, clock)
    /\ UNCHANGED <<clock, ticks, iv, ivObs, tmo, tmoObs, db, dbObs, wr, wrObs,
                 bm, bmObs, ds, sl, slObs>>

ThSetLocked ==
    /\ \E locked \in BOOLEAN :
          /\ th' = Throttle_setLocked(th, locked)
          /\ thObs' = ThObsOp(thObs, "setLocked", undefined, th, clock)
    /\ UNCHANGED <<clock, ticks, iv, ivObs, tmo, tmoObs, db, dbObs, wr, wrObs,
                 bm, bmObs, ds, sl, slObs>>

ThResetLastPass ==
    /\ th' = Throttle_resetLastPass(th)
    /\ thObs' = [ThObsOp(thObs, "resetLastPass", undefined, th, clock) EXCEPT
          !.touched = TRUE]
    /\ UNCHANGED <<clock, ticks, iv, ivObs, tmo, tmoObs, db, dbObs, wr, wrObs,
                 bm, bmObs, ds, sl, slObs>>

ThSetTimeout ==
    /\ \E w \in ThWindowsMs :
          /\ th' = Throttle_setTimeout(th, Num(w))
          /\ thObs' = [ThObsOp(thObs, "setTimeout", undefined, th, clock) EXCEPT
                !.windowMs = w, !.touched = TRUE]
    /\ UNCHANGED <<clock, ticks, iv, ivObs, tmo, tmoObs, db, dbObs, wr, wrObs,
                 bm, bmObs, ds, sl, slObs>>

ThTick ==
    /\ ticks < MaxTicks
    /\ \E step \in ThStepsMs : clock' = clock + step
    /\ ticks' = ticks + 1
    /\ UNCHANGED <<th, thObs, iv, ivObs, tmo, tmoObs, db, dbObs, wr, wrObs,
                 bm, bmObs, ds, sl, slObs>>

ThNext ==
    \/ ThCanPass
    \/ ThTryPass
    \/ ThLock
    \/ ThUnlock
    \/ ThSetLocked
    \/ ThResetLastPass
    \/ ThSetTimeout
    \/ ThTick

SpecThrottle == ThInit /\ [][ThNext]_vars

----------------------------------------------------------------------------
(* Claims about Throttle *)

\* the throttle's last pass is at least the window, in ms, behind the
\* throttle's reading of the clock at clk
ThWindowElapsed(s, windowMs, clk) ==
    Leq(Num(windowMs), Mul(diff(s.lastPass, now(clk)), Num(1000)))

\* C6: tryPass() returns true exactly when the throttle is not locked and
\* either has no last pass recorded or its reading of the clock is at least
\* the window past the last pass; when it returns true lastPass is the
\* current reading of the clock, and when it returns false lastPass is what
\* it was.
C6_TryPassIffOpenAndElapsed ==
    thObs.op = "tryPass" =>
        /\ thObs.ret =
              (/\ ~thObs.before.locked
               /\ \/ thObs.before.lastPass = undefined
                  \/ ThWindowElapsed(thObs.before, thObs.windowMs, thObs.at))
        /\ thObs.ret => th.lastPass = now(thObs.at)
        /\ ~thObs.ret => th.lastPass = thObs.before.lastPass

\* C6 witness: a tryPass() that returned true on an unlocked throttle whose
\* last pass was a whole window (above zero) earlier, and moved lastPass.
C6_Witness ==
    /\ thObs.op = "tryPass" /\ thObs.ret = TRUE /\ thObs.windowMs > 0
    /\ thObs.before.lastPass # undefined
    /\ th.lastPass # thObs.before.lastPass

\* C7: while the throttle is locked canPass() and tryPass() return false
\* however much time has passed; lock(), unlock() and setLocked() leave
\* lastPass and the window as they were, so that right after unlock() the
\* throttle passes exactly when it would have passed without the lock.
C7_LockGatesAndKeepsLastPass ==
    /\ (thObs.op \in {"canPass", "tryPass"} /\ thObs.before.locked)
          => thObs.ret = FALSE /\ th = thObs.before
    /\ thObs.op \in {"lock", "unlock", "setLocked"} =>
          /\ th.lastPass = thObs.before.lastPass
          /\ th.timeoutSeconds = thObs.before.timeoutSeconds
    /\ thObs.op = "unlock" =>
          /\ ~th.locked
          /\ Throttle_canPass(th, clock)
                = (Throttle_getRemainingTimeout(thObs.before, clock) = Num(0))

\* C7 witness: a tryPass() refused by the lock more than a window plus a
\* second after the last pass.
C7_Witness ==
    /\ thObs.op = "tryPass" /\ thObs.before.locked /\ thObs.ret = FALSE
    /\ thObs.passAtBefore # -1 /\ thObs.windowMs > 0
    /\ thObs.at - thObs.passAtBefore >= thObs.windowMs + 1000

\* C8: in real elapsed time, on an unlocked throttle with window w ms that
\* was never reset or re-windowed, a tryPass() less than w ms after the last
\* successful one returns false and a tryPass() at least w ms after it
\* returns true.
C8_WindowInRealTime ==
    (/\ thObs.op = "tryPass" /\ ~thObs.before.locked /\ ~thObs.touched
     /\ thObs.passAtBefore # -1) =>
        /\ thObs.at - thObs.passAtBefore < thObs.windowMs => thObs.ret = FALSE
        /\ thObs.at - thObs.passAtBefore >= thObs.windowMs => thObs.ret = TRUE

\* C17: Throttle.getTimeout() returns the window most recently set, in ms:
\* the value handed to new Throttle or to the latest setTimeout call.
C17_GetTimeoutIsWindowSet ==
    Throttle_getTimeout(th) = Num(thObs.windowMs)

\* what canPass() and tryPass() do to the throttle, in the steps in which
\* they are the operation made: canPass() leaves it as it was; tryPass()
\* changes lastPass only, and only when it returns true
C25_PassSteps ==
    /\ (thObs'.op = "canPass" /\ clock' = clock) => th' = th
    /\ (thObs'.op = "tryPass" /\ clock' = clock) =>
          /\ th'.locked = th.locked /\ th'.timeoutSeconds = th.timeoutSeconds
          /\ th'.lastPass # th.lastPass => thObs'.ret = TRUE

\* C25: canPass() changes no state, whatever it returns; of canPass() and
\* tryPass() only a tryPass() that returns true changes lastPass; so a
\* tryPass() that follows a canPass() that returned true, with no time and
\* no other operation between the two, returns true.
C25_CanPassIsPureAndPredictsTryPass ==
    /\ []((thObs.op = "canPass" => th = thObs.before)
          /\ (thObs.checked => thObs.ret = TRUE))
    /\ [][C25_PassSteps]_vars

\* C25 witness: a throttle with a window above zero and a pass on record;
\* canPass() returned true and the tryPass() made right after it passed.
C25_Witness ==
    /\ thObs.checked /\ thObs.ret = TRUE /\ thObs.windowMs > 0
    /\ thObs.passAtBefore # -1 /\ thObs.before.lastPass # undefined
    /\ thObs.passAt = thObs.at

----------------------------------------------------------------------------
(* src/src/scheduler/rate-limit.ts: Throttle.wrap *)

\* the wrapped function fn: its result names the argument it was called with
fn(arg) == [result |-> arg]

\* Throttle.wrap(fn, timeoutMs): the closure's throttle and, with it, the
\* arguments of the invocations of fn made so far
Throttle_wrap(timeoutMs) ==
    [throttle |-> Throttle_new(timeoutMs), invoked |-> <<>>]

\* Throttle_wrapped that invokes fn whatever tryPass() returned
Throttle_wrapped_IgnoresTryPass(w, arg, clk) ==
    LET r == Throttle_tryPass(w.throttle, clk)
    IN  [state |-> [throttle |-> r.state, invoked |-> Append(w.invoked, arg)],
         ret |-> fn(arg)]

\* a call, with arg, of the function wrap returned: the closure after the
\* call and the value returned
Throttle_wrapped(w, arg, clk) ==
    LET r == Throttle_tryPass(w.throttle, clk)
    IN  IF r.ret
        THEN [state |-> [throttle |-> r.state, invoked |-> Append(w.invoked, arg)],
              ret |-> fn(arg)]
        ELSE [state |-> [w EXCEPT !.throttle = r.state], ret |-> undefined]

----------------------------------------------------------------------------
(* The wrapped function's run *)

\* the arguments handed to the wrapped function
WrArgs == {"x", "y"}

\* Observations.  windowMs: the milliseconds handed to wrap; calls: the calls
\* of the wrapped function made so far; arg, ret: the argument of the latest
\* call and what it returned; could: the closure's throttle would let a pass
\* through just before the latest call; passed: the arguments of the calls
\* before which it would.
WrObsInit(w) ==
    [windowMs |-> w, calls |-> 0, arg |-> undefined, ret |-> undefined,
     could |-> FALSE, passed |-> <<>>]

WrInit ==
    /\ clock = 0
    /\ ticks = 0
    /\ NoInterval /\ NoTimeout /\ NoThrottle /\ NoDebounce /\ NoOthers
    /\ \E w \in ThWindowsMs :
          /\ wr = Throttle_wrap(Num(w))
          /\ wrObs = WrObsInit(w)

WrCall ==
    /\ wrObs.calls < MaxWrapCalls
    /\ \E arg \in WrArgs :
          LET r == Throttle_wrapped(wr, arg, clock)
              could == Throttle_canPass(wr.throttle, clock)
          IN  /\ wr' = r.state
              /\ wrObs' = [wrObs EXCEPT
                    !.calls = @ + 1, !.arg = arg, !.ret = r.ret,
                    !.could = could,
                    !.passed = IF could THEN Append(@, arg) ELSE @]
    /\ UNCHANGED <<clock, ticks, iv, ivObs, tmo, tmoObs, th, thObs, db, dbObs,
                 bm, bmObs, ds, sl, slObs>>

WrTick ==
    /\ ticks < MaxTicks
    /\ \E step \in ThStepsMs : clock' = clock + step
    /\ ticks' = ticks + 1
    /\ UNCHANGED <<wr, wrObs, iv, ivObs, tmo, tmoObs, th, thObs, db, dbObs,
                 bm, bmObs, ds, sl, slObs>>

WrNext ==
    \/ WrCall
    \/ WrTick

SpecWrap == WrInit /\ [][WrNext]_vars

----------------------------------------------------------------------------
(* Claims about Throttle.wrap *)

\* C18: the function made by Throttle.wrap invokes fn on exactly the calls
\* before which its throttle would let a pass through, with the call's
\* argument and in the order of the calls, and returns fn's result; every
\* other call returns undefined and invokes nothing, then or later: the
\* invocations of fn are, one for one, the calls that passed.
C18_WrapInvokesExactlyOnPass ==
    /\ wr.invoked = wrObs.passed
    /\ wrObs.calls > 0 =>
          wrObs.ret = IF wrObs.could THEN fn(wrObs.arg) ELSE undefined
    /\ Len(wr.invoked) <= wrObs.calls

\* C18 witness: a window of 1000 ms; three calls: the first passed, the
\* second, made inside the window, was dropped, the third, made when the
\* window was over, passed and returned fn's result; 3000 ms or more have
\* gone by and fn has been invoked twice, not three times.
C18_Witness ==
    /\ wrObs.windowMs = 1000 /\ wrObs.calls = 3
    /\ wr.invoked = <<"x", "x">> /\ wrObs.arg = "x" /\ wrObs.ret = fn("x")
    /\ clock >= 3000

----------------------------------------------------------------------------
(* src/src/scheduler/rate-limit.ts: Debounce *)

\* The record of a Debounce holds its fields timeoutMs, scheduled, scheduler
\* and, with them, what its methods act on: timers, the Timeouts its
\* schedule() calls made (scheduler is [timer |-> its index in it]), and calls, the
\* invocations of the scheduled callbacks begun so far.  A scheduled closure
\* is [n |-> the number of the schedule() call that made it, arg |-> its
\* argument].

\* new Debounce(timeoutMs)
Debounce_new(timeoutMs) ==
    [timeoutMs |-> timeoutMs, scheduled |-> undefined, scheduler |-> undefined,
     timers |-> <<>>, calls |-> <<>>]

\* this.scheduler?.destroy()
Debounce_destroyScheduler(w) ==
    IF w.scheduler = undefined THEN w
    ELSE [w EXCEPT !.timers[w.scheduler.timer] = Timeout_destroy(@)]

\* Debounce_clear that keeps the callback
Debounce_clear_KeepsScheduled(w) ==
    [Debounce_destroyScheduler(w) EXCEPT !.scheduler = undefined]

\* Debounce_clear that keeps the handle of the Timeout
Debounce_clear_KeepsScheduler(w) ==
    [Debounce_destroyScheduler(w) EXCEPT !.scheduled = undefined]

Debounce_clear(w) ==
    [Debounce_destroyScheduler(w) EXCEPT !.scheduler = undefined,
                                         !.scheduled = undefined]

\* Debounce_schedule that keeps a callback that is already pending
Debounce_schedule_KeepsPending(w, arg, clk) ==
    LET c == Debounce_clear(w)
    IN  [c EXCEPT !.scheduled = IF w.scheduled = undefined
                                THEN [n |-> Len(c.timers) + 1, arg |-> arg]
                                ELSE w.scheduled,
                  !.timers = Append(c.timers, setTimeout(c.timeoutMs, clk)),
                  !.scheduler = [timer |-> Len(c.timers) + 1]]

Debounce_schedule(w, arg, clk) ==
    LET c == Debounce_clear(w)
    IN  [c EXCEPT !.scheduled = [n |-> Len(c.timers) + 1, arg |-> arg],
                  !.timers = Append(c.timers, setTimeout(c.timeoutMs, clk)),
                  !.scheduler = [timer |-> Len(c.timers) + 1]]

RECURSIVE Debounce_flush(_, _), Debounce_runScheduled(_, _)

\* this.scheduled(): task.spawn(() => void cb(...args)) begins cb at once, and
\* cb runs, up to its return, within the call.  What cb does to the Debounce
\* goes by the argument it was scheduled with: with 's' it calls
\* schedule(cb, 'a'), with 'f' it calls flush() in the first of its runs,
\* with 'c' it calls clear(), with anything else it leaves the Debounce alone.
Debounce_runScheduled(w, clk) ==
    LET c == w.scheduled
        first == \A k \in 1 .. Len(w.calls) : w.calls[k].n # c.n
        begun == [w EXCEPT !.calls = Append(@, c)]
    IN  CASE c.arg = "s" -> Debounce_schedule(begun, "a", clk)
          [] c.arg = "f" -> IF first THEN Debounce_flush(begun, clk) ELSE begun
          [] c.arg = "c" -> Debounce_clear(begun)
          [] OTHER -> begun

\* Debounce_flush that leaves the Timeout and the callback in place
Debounce_flush_KeepsTimer(w, clk) ==
    IF w.scheduled = undefined THEN w
    ELSE [w EXCEPT !.calls = Append(@, w.scheduled)]

Debounce_flush(w, clk) ==
    IF w.scheduled = undefined THEN w
    ELSE Debounce_clear(Debounce_runScheduled(Debounce_destroyScheduler(w), clk))

\* this.scheduler?.hasExecuted() === false
Debounce_isScheduled(w) ==
    IF w.scheduler = undefined THEN FALSE
    ELSE Timeout_hasExecuted(w.timers[w.scheduler.timer]) = FALSE

Debounce_getRemainingTimeout(w, clk) ==
    IF Falsy(w.scheduler) \/ Timeout_hasExecuted(w.timers[w.scheduler.timer])
    THEN undefined
    ELSE Timeout_getRemaining(w.timers[w.scheduler.timer], clk)

Debounce_getTimeout(w) == w.timeoutMs

Debounce_setTimeout(w, timeoutMs) == [w EXCEPT !.timeoutMs = timeoutMs]

\* The engine resumes the task of timer i; its callback is () => this.flush(),
\* which runs within the task before the task ends.
Debounce_timerResumes(w, i, clk) ==
    LET woke == [w EXCEPT !.timers[i] = Timeout_afterWait(@)]
    IN  IF woke.timers[i].pc = "cb"
        THEN [Debounce_flush(woke, clk) EXCEPT !.timers[i].pc = "done"]
        ELSE woke

----------------------------------------------------------------------------
(* The Debounce's run *)

\* the argument handed to the n-th schedule() call: 'a', 'b', 'a', ...
ArgOf(n) == IF n % 2 = 1 THEN "a" ELSE "b"

\* the amounts of time, in ms, that pass in one step of a Debounce's run
DbStepsMs == {1000000}

\* Observations.  delayMs: the milliseconds last handed in by the caller;
\* schedAt, schedDelayMs: the clock at the latest schedule() call and the
\* delay, in ms, the caller had set last at that moment; superseded: the
\* numbers of the schedule() calls made while an earlier call's callback was
\* pending, that earlier call's number; manual: the caller has called clear()
\* or flush(); fires: the invocations made by a timer; early: one of them
\* began before schedAt + schedDelayMs.  schedAt and schedDelayMs are kept
\* while the callback is pending (-1 otherwise).  pending: the number of the
\* latest schedule() call when no clear(), flush() or invocation by a timer
\* has come after it (0 otherwise); cleared: the numbers of the schedule()
\* calls whose callback was pending at a clear() call.  latest: the number
\* of the latest schedule() call when no schedule(), clear() or flush() call
\* was made after it, by the caller or by a callback in its run, and its
\* callback has not been invoked (0 otherwise).
DbObsInit(d) ==
    [delayMs |-> d, schedAt |-> -1, schedDelayMs |-> -1,
     superseded |-> {}, manual |-> FALSE, fires |-> 0, early |-> FALSE,
     pending |-> 0, cleared |-> {}, latest |-> 0]

\* latest after the operation op has taken the Debounce from w to w2: a
\* callback run within it has called schedule() when a Timeout was added
\* that op did not make itself, and flush() or clear() when it was
\* scheduled with 'f' or 'c'
DbObsLatest(o, w, w2, op) ==
    LET inner == op # "schedule" /\ Len(w2.timers) > Len(w.timers)
        innerStop == \E k \in Len(w.calls) + 1 .. Len(w2.calls) :
                        w2.calls[k].arg \in {"f", "c"}
        invoked(n) == \E k \in 1 .. Len(w2.calls) : w2.calls[k].n = n
    IN  [o EXCEPT !.latest =
            IF op = "schedule" \/ inner THEN Len(w2.timers)
            ELSE IF op \in {"clear", "flush"} \/ innerStop \/ invoked(@) THEN 0
            ELSE @]

DbObsSettle(o, w) ==
    IF w.scheduler = undefined
    THEN [o EXCEPT !.schedAt = -1, !.schedDelayMs = -1]
    ELSE o

DbInit ==
    /\ clock = 0
    /\ ticks = 0
    /\ NoInterval /\ NoTimeout /\ NoThrottle /\ NoWrap /\ NoOthers
    /\ \E d \in DelaysMs :
          /\ db = Debounce_new(Num(d))
          /\ dbObs = DbObsInit(d)

\* the caller calls schedule(cb, arg)
DbScheduleWith(arg) ==
    /\ Len(db.timers) < MaxSchedules
    /\ db' = Debounce_schedule(db, arg, clock)
    /\ dbObs' = DbObsLatest([dbObs EXCEPT
          !.schedAt = clock,
          !.schedDelayMs = dbObs.delayMs,
          !.pending = Len(db.timers) + 1,
          !.superseded = IF db.scheduled = undefined THEN @
                         ELSE @ \cup {db.scheduled.n}], db, db', "schedule")
    /\ UNCHANGED <<clock, ticks, iv, ivObs, tmo, tmoObs, th, thObs, wr, wrObs,
                 bm, bmObs, ds, sl, slObs>>

DbSchedule == DbScheduleWith(ArgOf(Len(db.timers) + 1))

DbClear ==
    /\ db' = Debounce_clear(db)
    /\ dbObs' = DbObsLatest(DbObsSettle(
          [dbObs EXCEPT !.manual = TRUE, !.pending = 0,
                        !.cleared = IF dbObs.pending = 0 THEN @
                                    ELSE @ \cup {dbObs.pending}], db'),
          db, db', "clear")
    /\ UNCHANGED <<clock, ticks, iv, ivObs, tmo, tmoObs, th, thObs, wr, wrObs,
                 bm, bmObs, ds, sl, slObs>>

DbFlush ==
    /\ db' = Debounce_flush(db, clock)
    /\ dbObs' = DbObsLatest(
          DbObsSettle([dbObs EXCEPT !.manual = TRUE, !.pending = 0], db'),
          db, db', "flush")
    /\ UNCHANGED <<clock, ticks, iv, ivObs, tmo, tmoObs, th, thObs, wr, wrObs,
                 bm, bmObs, ds, sl, slObs>>

DbSetTimeout ==
    /\ \E ms \in DelaysMs :
          /\ db' = Debounce_setTimeout(db, Num(ms))
          /\ dbObs' = [dbObs EXCEPT !.delayMs = ms]
    /\ UNCHANGED <<clock, ticks, iv, ivObs, tmo, tmoObs, th, thObs, wr, wrObs,
                 bm, bmObs, ds, sl, slObs>>

DbResume ==
    /\ \E i \in 1 .. Len(db.timers) :
          /\ db.timers[i].pc = "wait"
          /\ clock >= db.timers[i].wakeAt
          /\ db' = Debounce_timerResumes(db, i, clock)
          /\ dbObs' = DbObsLatest(DbObsSettle(
                IF Len(db'.calls) > Len(db.calls)
                THEN [dbObs EXCEPT
                        !.fires = @ + 1,
                        !.pending = 0,
                        !.early = @ \/ clock < dbObs.schedAt + dbObs.schedDelayMs]
                ELSE dbObs, db'), db, db', "fire")
    /\ UNCHANGED <<clock, ticks, iv, ivObs, tmo, tmoObs, th, thObs, wr, wrObs,
                 bm, bmObs, ds, sl, slObs>>

DbTick ==
    /\ ticks < MaxDbTicks
    /\ \E step \in DbStepsMs : clock' = clock + step
    /\ ticks' = ticks + 1
    /\ UNCHANGED <<db, dbObs, iv, ivObs, tmo, tmoObs, th, thObs, wr, wrObs,
                 bm, bmObs, ds, sl, slObs>>

DbNext ==
    \/ DbSchedule
    \/ DbClear
    \/ DbFlush
    \/ DbSetTimeout
    \/ DbResume
    \/ DbTick

SpecDebounce == DbInit /\ [][DbNext]_vars

\* what a callback handed to schedule() may do in its run: nothing to the
\* Debounce ('a'), schedule(cb, 'a') ('s'), flush() ('f'), clear() ('c')
DbrArgs == {"a", "s", "f", "c"}

DbScheduleReentrant == \E arg \in DbrArgs : DbScheduleWith(arg)

DbrNext ==
    \/ DbScheduleReentrant
    \/ DbClear
    \/ DbFlush
    \/ DbSetTimeout
    \/ DbResume
    \/ DbTick

\* some Timeout's task can be resumed: its wait has elapsed
DbResumeEnabled ==
    \E i \in 1 .. Len(db.timers) :
        db.timers[i].pc = "wait" /\ clock >= db.timers[i].wakeAt

\* A Debounce whose callbacks call its methods.  Time passes, and the engine
\* resumes every task whose wait has elapsed: DbResume is weakly fair, said
\* with its enabling condition written out (a DbResume step always changes
\* the resumed task, so DbResumeEnabled is ENABLED <<DbResume>>_vars).
SpecDebounceReentrant ==
    /\ DbInit /\ [][DbrNext]_vars
    /\ WF_vars(DbTick)
    /\ ([]<>(~DbResumeEnabled) \/ []<><<DbResume>>_vars)

\* the timers that can still invoke: waiting and not destroyed
DbLiveTimers ==
    {i \in 1 .. Len(db.timers) :
        db.timers[i].pc = "wait" /\ ~db.timers[i].destroyed}

\* every timer's task has ended
DbAllTimersDone == \A i \in 1 .. Len(db.timers) : db.timers[i].pc = "done"

----------------------------------------------------------------------------
(* Claims about Debounce *)

\* C9: at most one callback is pending: at most one timer can still invoke,
\* and it is the one kept with the pending callback.  A schedule() call made
\* while a callback is pending replaces it: the replaced call's callback is
\* never invoked.  With no clear() or flush(), once every timer has ended
\* each call that was not replaced has been invoked exactly once, the last
\* one with its own argument; so schedule(cb, 'a') then schedule(cb, 'b')
\* before the first delay elapses gives one invocation in total, with 'b'.
C9_ScheduleReplacesPending ==
    LET n == Len(db.timers)
        called == {db.calls[k].n : k \in 1 .. Len(db.calls)}
    IN  /\ Cardinality(DbLiveTimers) <= 1
        /\ \A i \in DbLiveTimers : db.scheduler = [timer |-> i]
        /\ called \cap dbObs.superseded = {}
        /\ \A k \in 1 .. Len(db.calls) :
              db.calls[k].arg = ArgOf(db.calls[k].n)
        /\ (~dbObs.manual /\ n >= 1 /\ DbAllTimersDone) =>
              /\ called = (1 .. n) \ dbObs.superseded
              /\ Len(db.calls) = Cardinality(called)
              /\ db.calls[Len(db.calls)] = [n |-> n, arg |-> ArgOf(n)]

\* C9 witness: a Debounce of 2 ms; schedule(cb, 'a'), then schedule(cb, 'b')
\* while 'a' was pending, no clear() or flush(); both timers have ended and
\* cb was invoked once, by the second timer, with 'b'.
C9_Witness ==
    /\ Len(db.timers) = 2 /\ dbObs.superseded = {1} /\ ~dbObs.manual
    /\ \A i \in 1 .. 2 : Timeout_getTimeout(db.timers[i]) = Num(2)
    /\ db.timers[1].destroyed /\ ~Timeout_hasExecuted(db.timers[1])
    /\ Timeout_hasExecuted(db.timers[2])
    /\ dbObs.fires = 1 /\ DbAllTimersDone
    /\ db.calls = <<[n |-> 2, arg |-> "b"]>>

\* C10: a Debounce of delay d ms fires d ms after the most recent schedule():
\* the timer kept with the pending callback is due at the clock of the latest
\* schedule() call plus the delay set then, and an invocation made by a timer
\* never begins earlier than that.
C10_FiresDelayAfterLatestSchedule ==
    /\ db.scheduler # undefined =>
          db.timers[db.scheduler.timer].wakeAt = dbObs.schedAt + dbObs.schedDelayMs
    /\ ~dbObs.early

\* the numbers of the schedule() calls whose callback has been invoked
DbCalled == {db.calls[k].n : k \in 1 .. Len(db.calls)}

\* no callback has been invoked twice
DbNoCallTwice ==
    \A j, k \in 1 .. Len(db.calls) : db.calls[j].n = db.calls[k].n => j = k

\* every Timeout made so far has ended or is destroyed
DbTimersCancelled(w) ==
    \A i \in 1 .. Len(w.timers) : w.timers[i].pc = "wait" => w.timers[i].destroyed

\* what a flush() call does: with a callback pending it begins that callback,
\* once, within the call, and leaves no callback and no Timeout that can
\* still invoke; with nothing pending it leaves the Debounce as it was
C11_FlushStep ==
    DbFlush =>
        IF dbObs.pending = 0
        THEN db' = db
        ELSE /\ db'.calls = Append(db.calls,
                    [n |-> dbObs.pending, arg |-> ArgOf(dbObs.pending)])
             /\ db'.scheduled = undefined
             /\ DbTimersCancelled(db')

\* C11: flush() with a callback pending invokes that callback at once,
\* exactly once, and cancels the timer: no callback is ever invoked twice, so
\* the timer's wait ending later causes no second invocation.  flush() with
\* nothing pending invokes nothing and changes nothing.
C11_FlushInvokesOnceAndCancels ==
    []DbNoCallTwice /\ [][C11_FlushStep]_vars

\* C11 witness: a Debounce of 1 ms; schedule(cb, 'a') then flush(); the
\* timer's wait has ended since (its task is over, it never executed) and cb
\* was invoked once, by flush().
C11_Witness ==
    /\ Len(db.timers) = 1 /\ Timeout_getTimeout(db.timers[1]) = Num(1)
    /\ db.timers[1].pc = "done" /\ ~Timeout_hasExecuted(db.timers[1])
    /\ db.calls = <<[n |-> 1, arg |-> "a"]>> /\ dbObs.fires = 0

\* what a clear() call does: it invokes nothing and leaves no callback and no
\* Timeout that can still invoke
C12_ClearStep ==
    DbClear =>
        /\ db'.calls = db.calls
        /\ db'.scheduled = undefined
        /\ DbTimersCancelled(db')

\* C12: clear() discards the pending callback without invoking it: a callback
\* that was pending at a clear() call is never invoked, neither when its
\* timer's wait ends nor by a later flush().
C12_ClearedNeverInvoked ==
    [](DbCalled \cap dbObs.cleared = {}) /\ [][C12_ClearStep]_vars

\* C12 witness: schedule(cb, 'a') then clear(), then schedule(cb, 'b') and
\* flush(); the first timer's wait has ended since; the invocation with 'b',
\* made by flush(), is the only one.
C12_Witness ==
    /\ dbObs.cleared = {1} /\ Len(db.timers) = 2
    /\ Timeout_getTimeout(db.timers[1]) = Num(1)
    /\ db.timers[1].pc = "done" /\ ~Timeout_hasExecuted(db.timers[1])
    /\ db.calls = <<[n |-> 2, arg |-> "b"]>> /\ dbObs.fires = 0

\* C20: in every state between the operations of a Debounce, isScheduled()
\* is true exactly when a callback is pending, that is, a schedule() call was
\* made and no clear(), flush() or invocation by a timer has come after it;
\* getRemainingTimeout() is undefined exactly when isScheduled() is false;
\* and the pending callback and the Timeout are both present or both absent.
C20_IsScheduledIffPending ==
    /\ Debounce_isScheduled(db) <=> dbObs.pending # 0
    /\ (Debounce_getRemainingTimeout(db, clock) = undefined)
          <=> ~Debounce_isScheduled(db)
    /\ (db.scheduled = undefined) <=> (db.scheduler = undefined)
    /\ dbObs.pending # 0 => db.scheduled.n = dbObs.pending

\* C20 witness: schedule(cb, 'a') fired by its timer, then schedule(cb, 'b'),
\* which is pending: isScheduled() is true and getRemainingTimeout() is a
\* number.
C20_Witness ==
    /\ db.calls = <<[n |-> 1, arg |-> "a"]>> /\ dbObs.fires = 1
    /\ dbObs.pending = 2 /\ Debounce_isScheduled(db)
    /\ Debounce_getRemainingTimeout(db, clock) # undefined
    /\ Timeout_hasExecuted(db.timers[1]) /\ ~Timeout_hasExecuted(db.timers[2])

----------------------------------------------------------------------------
(* src/unnamed/part_002: the benchmark registry *)

\* Time.cpu(): os.clock(), in seconds
cpu(clk) == Frac(clk, 1000)

\* const runningBenchmarks = new Map<string, number>()
runningBenchmarks == [id \in {} |-> undefined]

\* Map.set / Map.delete
MapSet(m, k, v) == [x \in DOMAIN m \cup {k} |-> IF x = k THEN v ELSE m[x]]
MapDelete(m, k) == [x \in DOMAIN m \ {k} |-> m[x]]

\* Benchmark_start that takes an id that is running and restarts it
Benchmark_start_Overwrites(m, id, clk) ==
    [state |-> MapSet(m, id, cpu(clk)), threw |-> FALSE]

\* start(id): the registry after the call and whether the call threw
Benchmark_start(m, id, clk) ==
    IF id \in DOMAIN m
    THEN [state |-> m, threw |-> TRUE]
    ELSE [state |-> MapSet(m, id, cpu(clk)), threw |-> FALSE]

\* stop(id): the registry after the call, whether the call threw and the
\* total seconds of the BenchmarkResult returned
Benchmark_stop(m, id, clk) ==
    IF id \notin DOMAIN m
    THEN [state |-> m, threw |-> TRUE, ret |-> undefined]
    ELSE [state |-> MapDelete(m, id), threw |-> FALSE,
          ret |-> diff(m[id], cpu(clk))]

----------------------------------------------------------------------------
(* The benchmark registry's run *)

\* the ids handed to start and stop
BmIds == {"p", "q"}

\* Observations.  op, id, threw, ret, at: the latest call, its id, whether
\* it threw, what it returned and the clock at it; before: the registry
\* before it; running: the ids for which a start has succeeded and no stop
\* has succeeded since; runningBefore: running before the latest call;
\* stopped: the ids for which a stop has succeeded.
BmObsInit ==
    [op |-> "none", id |-> undefined, threw |-> FALSE, ret |-> undefined,
     at |-> 0, before |-> undefined, running |-> {}, runningBefore |-> {},
     stopped |-> {}]

BmInit ==
    /\ clock = 0
    /\ ticks = 0
    /\ NoInterval /\ NoTimeout /\ NoThrottle /\ NoDebounce /\ NoWrap
    /\ NoDisect /\ NoSleep
    /\ bm = runningBenchmarks
    /\ bmObs = BmObsInit

BmStart ==
    /\ \E id \in BmIds :
          LET r == Benchmark_start(bm, id, clock)
          IN  /\ bm' = r.state
              /\ bmObs' = [bmObs EXCEPT
                    !.op = "start", !.id = id, !.threw = r.threw,
                    !.ret = undefined, !.at = clock, !.before = bm,
                    !.runningBefore = bmObs.running,
                    !.running = IF r.threw THEN @ ELSE @ \cup {id}]
    /\ UNCHANGED <<clock, ticks, iv, ivObs, tmo, tmoObs, th, thObs, db, dbObs,
                   wr, wrObs, ds, sl, slObs>>

BmStop ==
    /\ \E id \in BmIds :
          LET r == Benchmark_stop(bm, id, clock)
          IN  /\ bm' = r.state
              /\ bmObs' = [bmObs EXCEPT
                    !.op = "stop", !.id = id, !.threw = r.threw,
                    !.ret = r.ret, !.at = clock, !.before = bm,
                    !.runningBefore = bmObs.running,
                    !.running = IF r.threw THEN @ ELSE @ \ {id},
                    !.stopped = IF r.threw THEN @ ELSE @ \cup {id}]
    /\ UNCHANGED <<clock, ticks, iv, ivObs, tmo, tmoObs, th, thObs, db, dbObs,
                   wr, wrObs, ds, sl, slObs>>

\* One millisecond passes.
BmTick ==
    /\ ticks < MaxTicks
    /\ clock' = clock + 1
    /\ ticks' = ticks + 1
    /\ UNCHANGED <<bm, bmObs, iv, ivObs, tmo, tmoObs, th, thObs, db, dbObs,
                   wr, wrObs, ds, sl, slObs>>

BmNext ==
    \/ BmStart
    \/ BmStop
    \/ BmTick

SpecBenchmark == BmInit /\ [][BmNext]_vars

----------------------------------------------------------------------------
(* Claims about the benchmark registry *)

\* C21: start(id) throws exactly when id is running (a start(id) succeeded
\* and no stop(id) has succeeded since) and stop(id) throws exactly when id
\* is not running; a call that throws leaves the registry, ids and start
\* times, as it was; a start that succeeds records the time of the call; a
\* stop that succeeds removes the id, so that start(id) succeeds again.
C21_StartStopThrowIffRunning ==
    /\ DOMAIN bm = bmObs.running
    /\ bmObs.op = "start" => (bmObs.threw <=> bmObs.id \in bmObs.runningBefore)
    /\ bmObs.op = "stop" => (bmObs.threw <=> bmObs.id \notin bmObs.runningBefore)
    /\ bmObs.threw => bm = bmObs.before
    /\ (bmObs.op = "start" /\ ~bmObs.threw) =>
          bmObs.id \in DOMAIN bm /\ bm[bmObs.id] = cpu(bmObs.at)
    /\ (bmObs.op = "stop" /\ ~bmObs.threw) =>
          /\ bmObs.id \notin DOMAIN bm
          /\ bmObs.ret = diff(bmObs.before[bmObs.id], cpu(bmObs.at))

\* C21 witness: an id that was started and stopped has been started again,
\* later, while the other id was running, and the call succeeded.
C21_Witness ==
    /\ bmObs.op = "start" /\ ~bmObs.threw /\ bmObs.id \in bmObs.stopped
    /\ bmObs.at > 0 /\ bm[bmObs.id] = cpu(bmObs.at)
    /\ DOMAIN bm = BmIds

----------------------------------------------------------------------------
(* Lua numbers as disect computes on them: IEEE-754 doubles *)

\* A natural number of any size is the sequence of its digits in base
\* LimbBase, lowest first, without leading zeros (<<>> is 0).  A double is
\* [neg, m, e], the number m * 2^e, negated when neg; m is odd and below
\* 2^53, or 0 with e = 0 (no infinities, NaN or subnormals arise in disect).
LimbBase == 2 ^ 14

RECURSIVE IntBitLen(_)
\* the number of binary digits of i
IntBitLen(i) == IF i = 0 THEN 0 ELSE 1 + IntBitLen(i \div 2)

\* the binary digits one digit of base LimbBase holds
LimbBits == IntBitLen(LimbBase) - 1

RECURSIVE BigNorm(_)
BigNorm(a) ==
    IF a = <<>> \/ a[Len(a)] # 0 THEN a ELSE BigNorm(SubSeq(a, 1, Len(a) - 1))

RECURSIVE BigFromInt(_)
BigFromInt(i) ==
    IF i = 0 THEN <<>> ELSE <<i % LimbBase>> \o BigFromInt(i \div LimbBase)

BigRest(a) == IF a = <<>> THEN <<>> ELSE Tail(a)
BigLow(a) == IF a = <<>> THEN 0 ELSE Head(a)

RECURSIVE BigAddC(_, _, _)
BigAddC(a, b, c) ==
    IF a = <<>> /\ b = <<>>
    THEN IF c = 0 THEN <<>> ELSE <<c>>
    ELSE LET t == BigLow(a) + BigLow(b) + c
         IN  <<t % LimbBase>> \o BigAddC(BigRest(a), BigRest(b), t \div LimbBase)

BigAdd(a, b) == BigAddC(a, b, 0)

RECURSIVE BigSubB(_, _, _)
BigSubB(a, b, c) ==
    IF a = <<>> THEN <<>>
    ELSE LET t == Head(a) - BigLow(b) - c
         IN  <<t % LimbBase>> \o BigSubB(Tail(a), BigRest(b), IF t < 0 THEN 1 ELSE 0)

\* a - b, for a >= b
BigSub(a, b) == BigNorm(BigSubB(a, b, 0))

RECURSIVE BigLessFrom(_, _, _)
BigLessFrom(a, b, i) ==
    IF i = 0 THEN FALSE
    ELSE IF a[i] # b[i] THEN a[i] < b[i]
    ELSE BigLessFrom(a, b, i - 1)

BigLess(a, b) ==
    IF Len(a) # Len(b) THEN Len(a) < Len(b) ELSE BigLessFrom(a, b, Len(a))

RECURSIVE BigMulLimb(_, _, _)
BigMulLimb(a, k, c) ==
    IF a = <<>>
    THEN IF c = 0 THEN <<>> ELSE <<c>>
    ELSE LET t == Head(a) * k + c
         IN  <<t % LimbBase>> \o BigMulLimb(Tail(a), k, t \div LimbBase)

BigShlLimbs(a, n) == IF a = <<>> THEN <<>> ELSE [i \in 1 .. n |-> 0] \o a

RECURSIVE BigMul(_, _)
BigMul(a, b) ==
    IF b = <<>> THEN <<>>
    ELSE BigAdd(BigNorm(BigMulLimb(a, Head(b), 0)),
                BigShlLimbs(BigMul(a, Tail(b)), 1))

\* a * 2^n
BigShl(a, n) ==
    BigShlLimbs(BigNorm(BigMulLimb(a, 2 ^ (n % LimbBits), 0)), n \div LimbBits)

\* a \div 2^n
BigShr(a, n) ==
    LET q == n \div LimbBits
        p == 2 ^ (n % LimbBits)
        t == IF q >= Len(a) THEN <<>> ELSE SubSeq(a, q + 1, Len(a))
    IN  BigNorm([i \in 1 .. Len(t) |->
                    (t[i] \div p)
                    + ((IF i < Len(t) THEN t[i + 1] ELSE 0) % p) * (LimbBase \div p)])

BigOdd(a) == a # <<>> /\ a[1] % 2 = 1

\* the binary digit of a at 2^n
BigBit(a, n) ==
    IF n \div LimbBits >= Len(a) THEN 0
    ELSE (a[n \div LimbBits + 1] \div 2 ^ (n % LimbBits)) % 2

BigBitLen(a) ==
    IF a = <<>> THEN 0 ELSE LimbBits * (Len(a) - 1) + IntBitLen(a[Len(a)])

RECURSIVE BigDivMod(_, _, _)
\* long division of n by d; st is [i, q, r]: bit i of n and the bits below
\* it are still to take, q and r are the quotient and the remainder of the
\* bits above them.  The result has n = q * d + r, r < d.
BigDivMod(n, d, st) ==
    IF st.i < 0 THEN st
    ELSE LET r2 == BigAddC(st.r, st.r, BigBit(n, st.i))
             fits == ~BigLess(r2, d)
         IN  BigDivMod(n, d,
                [i |-> st.i - 1,
                 q |-> BigAddC(st.q, st.q, IF fits THEN 1 ELSE 0),
                 r |-> IF fits THEN BigSub(r2, d) ELSE r2])

RECURSIVE BigTrailingZeros(_)
BigTrailingZeros(a) == IF BigOdd(a) THEN 0 ELSE 1 + BigTrailingZeros(BigShr(a, 1))

DblZero == [neg |-> FALSE, m |-> <<>>, e |-> 0]

\* the double m * 2^e, m below 2^53 or 2^53 itself
DblExact(neg, m, e) ==
    IF m = <<>> THEN DblZero
    ELSE LET z == BigTrailingZeros(m)
         IN  [neg |-> neg, m |-> BigShr(m, z), e |-> e + z]

\* the double nearest to m * 2^e, ties to the even mantissa
DblRound(neg, m, e) ==
    LET len == BigBitLen(m)
        k == len - 53
        kept == BigShr(m, k)
        half == BigOdd(BigShr(m, k - 1))
        below == BigShl(BigShr(m, k - 1), k - 1) # m
        up == half /\ (below \/ BigOdd(kept))
    IN  IF len <= 53 THEN DblExact(neg, m, e)
        ELSE DblExact(neg, IF up THEN BigAdd(kept, <<1>>) ELSE kept, e + k)

\* the double of an integer of the model
DblInt(i) == DblExact(i < 0, BigFromInt(Abs(i)), 0)

DblNeg(x) == IF x.m = <<>> THEN x ELSE [x EXCEPT !.neg = ~@]

\* x * y
DblMul(x, y) ==
    IF x.m = <<>> \/ y.m = <<>> THEN DblZero
    ELSE DblRound(x.neg # y.neg, BigMul(x.m, y.m), x.e + y.e)

\* x / y, y not 0: by a power of two the quotient is exact; otherwise it is
\* taken to 55 bits or more, with one bit below them that says whether the
\* division left a remainder
DblDiv(x, y) ==
    IF x.m = <<>> THEN DblZero
    ELSE IF y.m = <<1>> THEN [neg |-> x.neg # y.neg, m |-> x.m, e |-> x.e - y.e]
    ELSE LET s == 55 + BigBitLen(y.m) - BigBitLen(x.m)
             n == BigShl(x.m, s)
             first == BigBitLen(n) - BigBitLen(y.m)
             dm == BigDivMod(n, y.m,
                      [i |-> first, q |-> <<>>, r |-> BigShr(n, first + 1)])
             q == BigAdd(BigShl(dm.q, 1), IF dm.r = <<>> THEN <<>> ELSE <<1>>)
         IN  DblRound(x.neg # y.neg, q, x.e - y.e - s - 1)

\* x + y
DblAdd(x, y) ==
    LET e == IF x.e < y.e THEN x.e ELSE y.e
        a == BigShl(x.m, x.e - e)
        b == BigShl(y.m, y.e - e)
    IN  IF x.neg = y.neg THEN DblRound(x.neg, BigAdd(a, b), e)
        ELSE IF BigLess(a, b) THEN DblRound(y.neg, BigSub(b, a), e)
        ELSE DblRound(x.neg, BigSub(a, b), e)

\* x - y
DblSub(x, y) == DblAdd(x, DblNeg(y))

\* x < y
DblLess(x, y) == LET d == DblSub(x, y) IN d.neg /\ d.m # <<>>

\* math.floor(x)
DblFloor(x) ==
    IF x.e >= 0 THEN x
    ELSE LET whole == BigShr(x.m, -x.e)
         IN  DblExact(x.neg, IF x.neg THEN BigAdd(whole, <<1>>) ELSE whole, 0)

\* the double a number written in the source or handed in by the caller
\* is: the one nearest to the fraction
DblFrom(x) == DblDiv(DblInt(x.n), DblInt(x.d))

----------------------------------------------------------------------------
(* src/unnamed/part_001: disect *)

\* the floor and the sum of exact fractions: the values a decomposition of
\* the number the caller wrote has (disect itself computes on doubles)
Floor(x) == Num(x.n \div x.d)

Add(x, y) == Frac(x.n * y.d + y.n * x.d, x.d * y.d)

\* the comparator of sortUnits on the seconds a and b of two units, doubles:
\* the first goes before the second
UnitBefore(a, b, dir) == IF dir = "asc" THEN DblLess(a, b) ELSE DblLess(b, a)

\* units.sort(comparator) is table.sort, which is not stable: the set of the
\* arrays the sort can leave, every arrangement of the units in which no
\* unit stands behind one it goes before.  Units of equal seconds come out
\* in any order.
sortUnits(units, dir) ==
    LET places == 1 .. Len(units)
        seconds == [i \in places |-> DblFrom(units[i].seconds)]
        orders == {p \in [places -> places] :
                      /\ \A i, j \in places : i # j => p[i] # p[j]
                      /\ \A i, j \in places :
                            i < j => ~UnitBefore(seconds[p[j]], seconds[p[i]], dir)}
    IN  {[i \in places |-> units[p[i]]] : p \in orders}

RECURSIVE DisectLoop(_, _, _, _)
\* the for loop of disect from the i-th target unit on: the result and the
\* seconds that remain after the last unit.  remainingSeconds and the
\* amounts are doubles, and every operation rounds as the double operation
\* does.
DisectLoop(targetUnits, i, remainingSeconds, res) ==
    IF i > Len(targetUnits)
    THEN [res |-> res, remainingSeconds |-> remainingSeconds]
    ELSE LET unit == targetUnits[i]
             unitSeconds == DblFrom(unit.seconds)
             unitAmount == DblFloor(DblDiv(remainingSeconds, unitSeconds))
         IN  DisectLoop(targetUnits, i + 1,
                        DblSub(remainingSeconds, DblMul(unitAmount, unitSeconds)),
                        Append(res, [unit |-> unit, amount |-> unitAmount]))

\* the statements after the loop: the remainder goes to the first entry of
\* SECOND, or to a new entry at the end
DisectCredit(res, remainingSeconds) ==
    LET found == {i \in 1 .. Len(res) : res[i].unit = Unit.SECOND}
    IN  IF found # {}
        THEN LET existing == CHOOSE i \in found : \A j \in found : i <= j
             IN  [res EXCEPT ![existing].amount = DblAdd(@, remainingSeconds)]
        ELSE Append(res, [unit |-> Unit.SECOND, amount |-> remainingSeconds])

\* disect(seconds, ...units): the set of the arrays the call can return, one
\* for each order the sort can leave the units in.  seconds is the number
\* the caller wrote, a fraction, and the function receives the double
\* nearest to it.
disect(seconds, units) ==
    {LET loop == DisectLoop(targetUnits, 1, DblFrom(seconds), <<>>)
     IN  DisectCredit(loop.res, loop.remainingSeconds) :
        targetUnits \in sortUnits(units, "desc")}

----------------------------------------------------------------------------
(* Calls of disect *)

\* units of the caller's own, of the seconds of MINUTE and of SECOND
DsCallerUnits ==
    {[seconds |-> Num(60), name |-> "a"], [seconds |-> Num(1), name |-> "x"]}

\* the units handed to disect
DsUnitPool == {Unit.MILLI, Unit.SECOND, Unit.MINUTE, Unit.HOUR} \cup DsCallerUnits

\* the seconds handed to disect
DsSeconds ==
    {Num(0), Num(59), Num(125), Num(3725), Frac(3, 2), Frac(1, 2000),
     Frac(43, 1000), Frac(59, 1000)}

\* the sequences of at most n units
DsUnitSeqs(n) == UNION {[1 .. k -> DsUnitPool] : k \in 0 .. n}

DsInit ==
    /\ clock = 0
    /\ ticks = 0
    /\ NoInterval /\ NoTimeout /\ NoThrottle /\ NoDebounce /\ NoWrap
    /\ NoBenchmark /\ NoSleep
    /\ \E seconds \in DsSeconds, units \in DsUnitSeqs(MaxUnits) :
          ds = [seconds |-> seconds, units |-> units, returned |-> FALSE,
                res |-> <<>>]

\* the call is made and returns
DsDisect ==
    /\ ~ds.returned
    /\ \E res \in disect(ds.seconds, ds.units) :
          ds' = [ds EXCEPT !.returned = TRUE, !.res = res]
    /\ UNCHANGED <<clock, ticks, iv, ivObs, tmo, tmoObs, th, thObs, db, dbObs,
                   wr, wrObs, bm, bmObs, sl, slObs>>

DsNext == DsDisect

SpecDisect == DsInit /\ [][DsNext]_vars

----------------------------------------------------------------------------
(* Claims about disect *)

RECURSIVE DsRemainder(_, _, _)
\* what remains of seconds when the first i entries of r have each taken the
\* whole multiples of their unit out of what the entries before them left
DsRemainder(r, i, seconds) ==
    IF i = 0 THEN seconds
    ELSE LET before == DsRemainder(r, i - 1, seconds)
             size == r[i].unit.seconds
         IN  Sub(before, Mul(Floor(Div(before, size)), size))

RECURSIVE DsTotal(_, _)
\* the sum of amount times unit size over the first i entries of r, as the
\* sum of doubles
DsTotal(r, i) ==
    IF i = 0 THEN DblZero
    ELSE DblAdd(DsTotal(r, i - 1), DblMul(r[i].amount, DblFrom(r[i].unit.seconds)))

\* the number of entries of unit u in the sequence of units or of entries
DsCount(units, u) == Cardinality({i \in 1 .. Len(units) : units[i] = u})

\* C22: disect(seconds, ...units) takes the units largest first; each
\* unit's amount is the floor of what the larger units left divided by the
\* unit's size; what is left after the last unit is added to the first
\* entry of SECOND, or appended as an entry of SECOND when SECOND is not
\* among the units; the sum of amount times unit size over the result is
\* seconds.  disect(125, SECOND, MINUTE) is [{MINUTE, 2}, {SECOND, 5}].
\* The amounts are those of the numbers the caller wrote: 0.043 seconds
\* hold 43 milliseconds.
C22_DisectIsGreedyAndConserves ==
    ds.returned =>
        LET r == ds.res
            n == Len(ds.units)
            left == DsRemainder(r, n, ds.seconds)
            hasSecond == DsCount(ds.units, Unit.SECOND) > 0
            firstSecond == CHOOSE i \in 1 .. Len(r) :
                              /\ r[i].unit = Unit.SECOND
                              /\ \A j \in 1 .. i - 1 : r[j].unit # Unit.SECOND
            floorAt(i) == Floor(Div(DsRemainder(r, i - 1, ds.seconds),
                                    r[i].unit.seconds))
        IN  /\ Len(r) = IF hasSecond THEN n ELSE n + 1
            /\ \A u \in DsUnitPool :
                  DsCount(ds.units, u) =
                     Cardinality({i \in 1 .. n : r[i].unit = u})
            /\ \A i, j \in 1 .. n :
                  i < j => Leq(r[j].unit.seconds, r[i].unit.seconds)
            /\ \A i \in 1 .. n :
                  r[i].amount = DblFrom(IF hasSecond /\ i = firstSecond
                                        THEN Add(floorAt(i), left)
                                        ELSE floorAt(i))
            /\ ~hasSecond =>
                  r[n + 1] = [unit |-> Unit.SECOND, amount |-> DblFrom(left)]
            /\ DsTotal(r, Len(r)) = DblFrom(ds.seconds)
            /\ (ds.seconds = Num(125) /\ ds.units = <<Unit.SECOND, Unit.MINUTE>>)
                  => r = <<[unit |-> Unit.MINUTE, amount |-> DblInt(2)],
                           [unit |-> Unit.SECOND, amount |-> DblInt(5)]>>

\* C23: the array disect returns is in descending order of unit size,
\* whatever the units asked for.
C23_ResultIsDescending ==
    ds.returned =>
        \A i, j \in 1 .. Len(ds.res) :
            i < j => Leq(ds.res[j].unit.seconds, ds.res[i].unit.seconds)

----------------------------------------------------------------------------
(* src/src/scheduler/interval.ts: sleep *)

\* sleep(ms): the promise's executor run up to its task.wait
sleep(ms, clk) ==
    LET t == msToS(ms)
    IN  [pc |-> "wait", waitArg |-> t, wakeAt |-> WaitDeadline(t, clk),
         resolved |-> FALSE]

\* The statements after task.wait returns: resolve()
Sleep_afterWait(s) ==
    [s EXCEPT !.pc = "done", !.waitArg = undefined, !.wakeAt = 0,
              !.resolved = TRUE]

----------------------------------------------------------------------------
(* The sleep's run *)

\* Observations.  ms: the milliseconds handed to sleep; resolvedAt: the
\* clock when the promise resolved (-1: not yet); late: the wait was resumed
\* later than its deadline.
SlObsInit(ms) == [ms |-> ms, resolvedAt |-> -1, late |-> FALSE]

SlInit ==
    /\ clock = 0
    /\ ticks = 0
    /\ NoInterval /\ NoTimeout /\ NoThrottle /\ NoDebounce /\ NoWrap
    /\ NoBenchmark /\ NoDisect
    /\ \E ms \in DelaysMs :
          /\ sl = sleep(Num(ms), 0)
          /\ slObs = SlObsInit(ms)

\* The engine resumes the task waiting in task.wait.
SlResume ==
    /\ sl.pc = "wait"
    /\ clock >= sl.wakeAt
    /\ sl' = Sleep_afterWait(sl)
    /\ slObs' = [slObs EXCEPT !.resolvedAt = clock]
    /\ UNCHANGED <<clock, ticks, iv, ivObs, tmo, tmoObs, th, thObs, db, dbObs,
                   wr, wrObs, bm, bmObs, ds>>

SlTick ==
    /\ ticks < MaxTicks
    /\ \E step \in ToStepsMs :
          /\ clock' = clock + step
          /\ slObs' = [slObs EXCEPT
                !.late = @ \/ (sl.pc = "wait" /\ clock + step > sl.wakeAt)]
    /\ ticks' = ticks + 1
    /\ UNCHANGED <<sl, iv, ivObs, tmo, tmoObs, th, thObs, db, dbObs,
                   wr, wrObs, bm, bmObs, ds>>

SlNext ==
    \/ SlResume
    \/ SlTick

SpecSleep == SlInit /\ [][SlNext]_vars

\* the wait is in flight, its deadline has passed and the engine has not resumed it
SlDue == sl.pc = "wait" /\ clock >= sl.wakeAt

----------------------------------------------------------------------------
(* Claims about sleep *)

\* C24: sleep(ms) hands ms / 1000 seconds to task.wait, the same duration
\* setTimeout hands to it for ms milliseconds; its promise never resolves
\* before ms milliseconds have passed and has resolved once they have passed
\* when the engine resumes the wait at its deadline.
C24_SleepWaitsMs ==
    /\ sl.pc = "wait" =>
          /\ sl.waitArg = Frac(slObs.ms, 1000)
          /\ sl.waitArg = setTimeout(Num(slObs.ms), 0).waitArg
    /\ sl.resolved => slObs.resolvedAt >= slObs.ms
    /\ (~slObs.late /\ ~SlDue /\ clock >= slObs.ms) => sl.resolved

----------------------------------------------------------------------------
(* The run of a timer, an Interval or a Timeout, whose callback may raise *)

\* The engine resumes the Interval's task and the callback, one that does
\* not suspend, raises.
IvResumeRaises ==
    /\ iv.pc = "wait"
    /\ clock >= iv.wakeAt
    /\ ivObs.calls < MaxCalls
    /\ ~ivObs.yields
    /\ LET woke == Interval_afterWait(iv)
       IN  /\ woke.pc = "cb"
           /\ iv' = Interval_cbRaised(woke, clock)
           /\ ivObs' = [IvObsCall(ivObs, woke, clock) EXCEPT !.raised = TRUE]
    /\ UNCHANGED <<clock, ticks, tmo, tmoObs, th, thObs, db, dbObs, wr, wrObs,
                   bm, bmObs, ds, sl, slObs>>

\* The Interval's callback, having suspended, raises.
IvCallbackRaises ==
    /\ iv.pc = "cb"
    /\ iv' = Interval_cbRaised(iv, clock)
    /\ ivObs' = [ivObs EXCEPT !.raised = TRUE]
    /\ UNCHANGED <<clock, ticks, tmo, tmoObs, th, thObs, db, dbObs,
                   wr, wrObs, bm, bmObs, ds, sl, slObs>>

\* The Timeout's callback raises.
ToCallbackRaises ==
    /\ tmo.pc = "cb"
    /\ tmo' = Timeout_cbRaised(tmo)
    /\ tmoObs' = [tmoObs EXCEPT !.raised = TRUE]
    /\ UNCHANGED <<clock, ticks, iv, ivObs, th, thObs, db, dbObs,
                   wr, wrObs, bm, bmObs, ds, sl, slObs>>

\* the timer is an Interval / a Timeout
IsInterval == iv # undefined
IsTimeout == tmo # undefined

TmInit == IvInit \/ ToInit

TmNext ==
    \/ IsInterval /\ IvResume
    \/ IsInterval /\ IvResumeRaises
    \/ IsInterval /\ IvCallbackReturns
    \/ IsInterval /\ IvCallbackRaises
    \/ IsInterval /\ IvDestroy
    \/ IsInterval /\ IvSetTimeout
    \/ IsInterval /\ IvTick
    \/ IsTimeout /\ ToResume
    \/ IsTimeout /\ ToCallbackReturns
    \/ IsTimeout /\ ToCallbackRaises
    \/ IsTimeout /\ ToDestroy
    \/ IsTimeout /\ ToTick

SpecTimers == TmInit /\ [][TmNext]_vars

----------------------------------------------------------------------------
(* Claims about the timers' tasks *)

\* an invocation begins in this step only from the wait, with the flag down
C26_InvokeStep ==
    /\ (IsInterval /\ ivObs'.calls > ivObs.calls) =>
          /\ iv.pc = "wait" /\ ~iv.destroyed
          /\ ivObs'.calls = ivObs.calls + 1
    /\ (IsTimeout /\ tmoObs'.calls > tmoObs.calls) =>
          /\ tmo.pc = "wait" /\ ~tmo.destroyed
          /\ tmo'.pc \in {"cb", "dead"} /\ Timeout_hasExecuted(tmo')

\* C26: in Interval and in Timeout the test of the flag after the wait and
\* the start of the callback are one step: an invocation begins only in a
\* step taken from the wait with the flag down, so no destroy() call falls
\* between the test and the invocation; the task is never seen between
\* them, it is waiting, in the callback or ended.
C26_CheckAndInvokeAreOneStep ==
    /\ [](/\ IsInterval => iv.pc \in {"wait", "cb", "done", "dead"}
          /\ IsTimeout => tmo.pc \in {"wait", "cb", "done", "dead"}
          /\ (IsTimeout /\ tmo.pc = "cb") => tmoObs.calls = 1)
    /\ [][C26_InvokeStep]_vars

\* C26 witness: a Timeout of 1 ms whose callback has begun, the flag down
\* when the wait ended; destroy() came after that, while the callback ran.
C26_Witness ==
    /\ IsTimeout /\ tmo.pc = "cb" /\ tmo.destroyed /\ ~tmoObs.destroyedInWait
    /\ tmoObs.delayMs = 1 /\ tmoObs.calls = 1 /\ Timeout_hasExecuted(tmo)

\* once a callback has raised, the task stays ended and invokes no more
C27_DeadStep ==
    /\ (IsInterval /\ ivObs.raised) =>
          iv'.pc = "dead" /\ ivObs'.calls = ivObs.calls
    /\ (IsTimeout /\ tmoObs.raised) =>
          tmo'.pc = "dead" /\ tmoObs'.calls = tmoObs.calls

\* C27: a callback that raises ends the timer's task; nothing catches the
\* error or repeats the invocation: the task is ended from then on and the
\* invocations begun stay what they were, on every later period; an Interval
\* whose callback raised has getRemaining() 0 and, when destroy() was never
\* called, isDestroyed() false; a Timeout whose callback raised has
\* executed, once.
C27_RaiseEndsTheTask ==
    /\ []((IsInterval /\ ivObs.raised) =>
             /\ iv.pc = "dead"
             /\ Interval_getRemaining(iv, clock) = Num(0)
             /\ ivObs.callsAtDestroy = -1 => ~Interval_isDestroyed(iv)
             /\ ivObs.calls >= 1)
    /\ []((IsTimeout /\ tmoObs.raised) =>
             tmo.pc = "dead" /\ Timeout_hasExecuted(tmo) /\ tmoObs.calls = 1)
    /\ []((IsInterval /\ iv.pc = "dead") => ivObs.raised)
    /\ []((IsTimeout /\ tmo.pc = "dead") => tmoObs.raised)
    /\ [][C27_DeadStep]_vars

\* C27 witness: an Interval of 1 ms whose callback raised in its first
\* invocation, at 1 ms; two more periods have passed, no invocation was
\* added, and the Interval is not destroyed.
C27_Witness ==
    /\ IsInterval /\ ivObs.raised /\ iv.pc = "dead" /\ ivObs.p0 = 1
    /\ ~ivObs.retimed
    /\ ivObs.calls = 1 /\ ivObs.firstAt = 1 /\ clock >= 3
    /\ ~Interval_isDestroyed(iv) /\ Interval_getRemaining(iv, clock) = Num(0)

----------------------------------------------------------------------------
(* Claims about a Debounce whose callbacks call its methods *)

\* the latest schedule() call is call n, no schedule(), clear() or flush()
\* call was made after it, and its delay can elapse in the run
DbLatestStands(n) ==
    /\ dbObs.latest = n
    /\ db.timers[n].wakeAt <= clock + (MaxDbTicks - ticks) * 1000000

\* C28: every schedule(cb) call that no schedule(), clear() or flush() call
\* follows leads to an invocation of cb in the end, also when it was made by
\* a debounced callback in its run, begun by a timer or by flush().
C28_ScheduleLeadsToInvocation ==
    \A n \in 1 .. 2 * MaxSchedules :
        DbLatestStands(n) ~> (n \in DbCalled \/ dbObs.latest # n)

\* C29: under every sequence and nesting of schedule(), clear() and flush()
\* calls and invocations by a timer, flush() and clear() called by the
\* callback in its run included, each schedule() call has led to at most one
\* invocation of its callback.
C29_AtMostOneInvocationPerSchedule ==
    \A n \in 1 .. Len(db.timers) :
        Cardinality({k \in 1 .. Len(db.calls) : db.calls[k].n = n}) <= 1

----------------------------------------------------------------------------
(* Claims about the end of the Interval's task *)

\* the wait in flight, if any, can elapse in the run
IvCanElapse == iv.pc = "wait" => iv.wakeAt <= clock + (MaxTicks - ticks)

\* what a step may do to the task of an Interval: the flag stays up; a wait
\* that has not elapsed stays in flight with its deadline, destroy() or not;
\* a destroyed Interval's task goes nowhere but to its end, and begins no
\* wait; a task that has ended stays ended
C30_TaskStep ==
    /\ iv.destroyed => iv'.destroyed
    /\ (iv.pc = "wait" /\ clock < iv.wakeAt) =>
          iv'.pc = "wait" /\ iv'.wakeAt = iv.wakeAt /\ iv'.latest = iv.latest
    /\ (iv.destroyed /\ iv'.pc # iv.pc) => iv'.pc = "done"
    /\ (iv.destroyed /\ iv'.pc = "wait") =>
          iv.pc = "wait" /\ iv'.wakeAt = iv.wakeAt /\ iv'.latest = iv.latest
    /\ iv.pc = "done" => iv'.pc = "done"

\* C30: destroy() does not cut a wait short, and the task of a destroyed
\* Interval ends: it ends in the step in which the wait in flight is resumed
\* or the running callback returns, without another wait, so in the end a
\* destroyed Interval has no live task; the task ends only when destroyed,
\* and the destroyed flag never goes back to false.
C30_DestroyedTaskEnds ==
    /\ [][C30_TaskStep]_vars
    /\ [](iv.pc = "done" => iv.destroyed)
    /\ (iv.destroyed /\ IvCanElapse) ~> (iv.pc = "done")

\* C30 witness: an Interval of 2 ms invoked at 2 and 4 ms and destroyed
\* during its third wait; that wait ran to its deadline, 6 ms, the task
\* ended there and no third invocation was made.
C30_Witness ==
    /\ iv.destroyed /\ iv.pc = "done" /\ ivObs.p0 = 2 /\ ~ivObs.retimed
    /\ ~ivObs.late /\ ivObs.callsAtDestroy = 2 /\ ivObs.calls = 2
    /\ ivObs.lastAt = 4 /\ clock = 6

====
